---- MODULE Spec2Model ----
(***************************************************************************)
(* Model of bridge_sim.py: a Flask-SocketIO server holding one process-    *)
(* wide registry `users` and two event handlers, handle_join and           *)
(* handle_power, both of which emit with broadcast=True.                   *)
(*                                                                         *)
(* The state is the registry, the transport's connections, what each       *)
(* client has been sent, and two logs (inbound events handled, outbound    *)
(* events emitted) that the properties are stated over.                    *)
(***************************************************************************)
EXTENDS Integers, Sequences, FiniteSets, TLC

VARIABLES users, conn, inbox, received, emitted, pending

vars == <<users, conn, inbox, received, emitted, pending>>

(* ------------------------------ bounds --------------------------------- *)

\* Number of inbound join / power_update events handled in one behaviour.
MaxEvents == 2

(* ------------------------------ inputs --------------------------------- *)

\* Client connections. The transport's identifier of a connection
\* (request.sid) is modelled by the connection's own name; a connection is
\* opened once and never reused after it closes.
Clients == {"c1", "c2"}

\* Values a client may send as data['session_id']: the handler reads the
\* field from the payload, so any string is possible, the transport
\* identifier of some connection and the empty string included.
SessionIds == Clients \cup {""}

Stations == {"", "helm"}

Names == {"", "Han"}

JoinKeys == {"session_id", "station", "name"}

WellFormedJoins == [session_id : SessionIds, station : Stations, name : Names]

\* Payloads that lack one of the keys the handler subscripts.
MalformedJoins ==
    { [station |-> "helm", name |-> "Han"],
      [session_id |-> "c1", name |-> "Han"],
      [session_id |-> "c1", station |-> "helm"] }

JoinPayloads == WellFormedJoins \cup MalformedJoins

\* power_update payloads are arbitrary mappings; the last one carries the
\* keys of a join payload.
PowerPayloads ==
    { [shields |-> 50],
      [shields |-> 25, engines |-> 75],
      [session_id |-> "c2", station |-> "helm", name |-> "Han"] }

(* ------------------------------ helpers -------------------------------- *)

\* users = {}
EmptyRegistry == [k \in {} |-> k]

\* No handler of the connection is between its write and its emit.
Idle == [pc |-> "idle"]

\* Variant: a validation layer that also rejects an empty session identifier.
KeyErrorOrEmpty(data) ==
    \/ ~ (JoinKeys \subseteq DOMAIN data)
    \/ data.session_id = ""

\* data[k] raises KeyError for one of the three keys handle_join reads.
KeyError(data) == ~ (JoinKeys \subseteq DOMAIN data)

\* Variant: users.setdefault(...), an existing entry is kept as it is.
RegisterKeepFirst(u, data) ==
    [k \in (DOMAIN u) \cup {data.session_id} |->
        IF k \in DOMAIN u
        THEN u[k]
        ELSE [station |-> data.station, name |-> data.name]]

\* Variant: users = {...}, the registry is rebound to the one new entry.
RegisterReset(u, data) ==
    [k \in {data.session_id} |-> [station |-> data.station, name |-> data.name]]

\* Variant: a station/name pair is held by one session only; entries of
\* other identifiers with the same pair are dropped.
RegisterUniqueStation(u, data) ==
    LET new == [station |-> data.station, name |-> data.name]
    IN  [k \in {j \in DOMAIN u : u[j] # new} \cup {data.session_id} |->
            IF k = data.session_id THEN new ELSE u[k]]

\* users[data['session_id']] = {'station': data['station'], 'name': data['name']}
Register(u, data) ==
    [k \in (DOMAIN u) \cup {data.session_id} |->
        IF k = data.session_id
        THEN [station |-> data.station, name |-> data.name]
        ELSE u[k]]

\* Variant: include_self=False, the sender is skipped.
ReceiversSkipSelf(sender) == {x \in Clients : conn[x] = "open"} \ {sender}

\* Variant: only the sender and the connections whose identifier is in the
\* registry are sent the event.
ReceiversRegisteredOnly(sender) ==
    {x \in Clients : conn[x] = "open" /\ (x = sender \/ x \in DOMAIN users)}

\* broadcast=True: every connected client of the namespace, the sender
\* included (include_self is left at its default).
Receivers(sender) == {x \in Clients : conn[x] = "open"}

\* emit(event, payload, broadcast=True) called while handling an event of
\* `sender`: one message queued to each receiver.
Emit(ib, sender, event, payload) ==
    [x \in Clients |->
        IF x \in Receivers(sender)
        THEN Append(ib[x], [event |-> event, payload |-> payload])
        ELSE ib[x]]

(* ------------------------------ initial state -------------------------- *)

Init ==
    /\ users = EmptyRegistry
    /\ conn = [c \in Clients |-> "new"]
    /\ inbox = [c \in Clients |-> << >>]
    /\ received = << >>
    /\ emitted = << >>
    /\ pending = [c \in Clients |-> Idle]

(* ------------------------------ transport ------------------------------ *)

\* A client connects. No 'connect' handler is registered: nothing but the
\* transport's own bookkeeping changes.
Connect(c) ==
    /\ conn[c] = "new"
    /\ conn' = [conn EXCEPT ![c] = "open"]
    /\ UNCHANGED <<users, inbox, received, emitted, pending>>

\* Variant: a 'disconnect' handler that drops the connection's entry.
DisconnectCleanup(c) ==
    /\ conn[c] = "open"
    /\ conn' = [conn EXCEPT ![c] = "closed"]
    /\ users' = [k \in (DOMAIN users) \ {c} |-> users[k]]
    /\ UNCHANGED <<inbox, received, emitted, pending>>

\* A client disconnects. No 'disconnect' handler is registered: the registry
\* is left as it is.
Disconnect(c) ==
    /\ conn[c] = "open"
    /\ conn' = [conn EXCEPT ![c] = "closed"]
    /\ UNCHANGED <<users, inbox, received, emitted, pending>>

(* ------------------------------ handlers ------------------------------- *)

\* Variant: the entry is created under the identifier first and filled field
\* by field, so a payload that lacks station or name leaves a partial entry
\* behind before the error.
HandleJoinPartialWrite(c, data) ==
    /\ conn[c] = "open"
    /\ Len(received) < MaxEvents
    /\ IF KeyError(data)
       THEN /\ received' = Append(received,
                     [event |-> "join", from |-> c, data |-> data, ok |-> FALSE])
            /\ users' = IF "session_id" \in DOMAIN data
                        THEN [k \in (DOMAIN users) \cup {data.session_id} |->
                                 IF k = data.session_id
                                 THEN [station |-> IF "station" \in DOMAIN data
                                                   THEN data.station ELSE "",
                                       name |-> ""]
                                 ELSE users[k]]
                        ELSE users
            /\ UNCHANGED <<inbox, emitted>>
       ELSE /\ users' = Register(users, data)
            /\ emitted' = Append(emitted,
                     [event |-> "update_users", payload |-> users'])
            /\ inbox' = Emit(inbox, c, "update_users", users')
            /\ received' = Append(received,
                     [event |-> "join", from |-> c, data |-> data, ok |-> TRUE])
    /\ UNCHANGED <<conn, pending>>

\* @socketio.on('join'), handled to completion.
HandleJoin(c, data) ==
    /\ conn[c] = "open"
    /\ Len(received) < MaxEvents
    /\ IF KeyError(data)
       THEN /\ received' = Append(received,
                     [event |-> "join", from |-> c, data |-> data, ok |-> FALSE])
            /\ UNCHANGED <<users, inbox, emitted>>
       ELSE /\ users' = Register(users, data)
            /\ emitted' = Append(emitted,
                     [event |-> "update_users", payload |-> users'])
            /\ inbox' = Emit(inbox, c, "update_users", users')
            /\ received' = Append(received,
                     [event |-> "join", from |-> c, data |-> data, ok |-> TRUE])
    /\ UNCHANGED <<conn, pending>>

\* Variant: a power_update whose payload carries the keys of a join is also
\* registered.
HandlePowerRegisters(c, data) ==
    /\ conn[c] = "open"
    /\ Len(received) < MaxEvents
    /\ users' = IF KeyError(data) THEN users ELSE Register(users, data)
    /\ emitted' = Append(emitted, [event |-> "power_update", payload |-> data])
    /\ inbox' = Emit(inbox, c, "power_update", data)
    /\ received' = Append(received,
             [event |-> "power_update", from |-> c, data |-> data, ok |-> TRUE])
    /\ UNCHANGED <<conn, pending>>

\* Variant: the power handler also rebroadcasts the registry.
HandlePowerEmitsUsers(c, data) ==
    /\ conn[c] = "open"
    /\ Len(received) < MaxEvents
    /\ emitted' = Append(Append(emitted, [event |-> "power_update", payload |-> data]),
                         [event |-> "update_users", payload |-> users])
    /\ inbox' = [x \in Clients |->
                    IF x \in Receivers(c)
                    THEN Append(Emit(inbox, c, "power_update", data)[x],
                                [event |-> "update_users", payload |-> users])
                    ELSE inbox[x]]
    /\ received' = Append(received,
             [event |-> "power_update", from |-> c, data |-> data, ok |-> TRUE])
    /\ UNCHANGED <<users, conn, pending>>

\* Variant: power updates of a connection that is not in the registry are
\* dropped.
HandlePowerRegisteredOnly(c, data) ==
    /\ conn[c] = "open"
    /\ Len(received) < MaxEvents
    /\ IF c \in DOMAIN users
       THEN /\ emitted' = Append(emitted, [event |-> "power_update", payload |-> data])
            /\ inbox' = Emit(inbox, c, "power_update", data)
            /\ received' = Append(received,
                     [event |-> "power_update", from |-> c, data |-> data, ok |-> TRUE])
       ELSE /\ received' = Append(received,
                     [event |-> "power_update", from |-> c, data |-> data, ok |-> FALSE])
            /\ UNCHANGED <<inbox, emitted>>
    /\ UNCHANGED <<users, conn, pending>>

\* @socketio.on('power_update')
HandlePower(c, data) ==
    /\ conn[c] = "open"
    /\ Len(received) < MaxEvents
    /\ emitted' = Append(emitted, [event |-> "power_update", payload |-> data])
    /\ inbox' = Emit(inbox, c, "power_update", data)
    /\ received' = Append(received,
             [event |-> "power_update", from |-> c, data |-> data, ok |-> TRUE])
    /\ UNCHANGED <<users, conn, pending>>

(* ------------------------------ specification -------------------------- *)

Next ==
    \/ \E c \in Clients : Connect(c)
    \/ \E c \in Clients : Disconnect(c)
    \/ \E c \in Clients, data \in JoinPayloads : HandleJoin(c, data)
    \/ \E c \in Clients, data \in PowerPayloads : HandlePower(c, data)

Spec == Init /\ [][Next]_vars

(* ------------------------------ threaded dispatch --------------------- *)

\* The same handler when the server runs each event handler in a thread of
\* its own (the threading async mode, which socketio.run falls back to):
\* the registry write and the emit are two statements with no lock around
\* them, so handlers of other connections may run in between.

\* handle_join up to and including the registry write. `snap` remembers the
\* registry as this write left it.
JoinWrite(c, data) ==
    /\ conn[c] = "open"
    /\ pending[c] = Idle
    /\ Len(received) < MaxEvents
    /\ IF KeyError(data)
       THEN /\ received' = Append(received,
                     [event |-> "join", from |-> c, data |-> data, ok |-> FALSE])
            /\ UNCHANGED <<users, pending>>
       ELSE /\ users' = Register(users, data)
            /\ pending' = [pending EXCEPT ![c] = [pc |-> "emit", snap |-> users']]
            /\ received' = Append(received,
                     [event |-> "join", from |-> c, data |-> data, ok |-> TRUE])
    /\ UNCHANGED <<conn, inbox, emitted>>

\* handle_join's emit: the payload is the registry object as it is now.
JoinEmit(c) ==
    /\ pending[c].pc = "emit"
    /\ emitted' = Append(emitted, [event |-> "update_users", payload |-> users])
    /\ inbox' = Emit(inbox, c, "update_users", users)
    /\ pending' = [pending EXCEPT ![c] = Idle]
    /\ UNCHANGED <<users, conn, received>>

NextThreaded ==
    \/ \E c \in Clients : Connect(c)
    \/ \E c \in Clients : Disconnect(c)
    \/ \E c \in Clients, data \in JoinPayloads : JoinWrite(c, data)
    \/ \E c \in Clients : JoinEmit(c)
    \/ \E c \in Clients, data \in PowerPayloads : HandlePower(c, data)

SpecThreaded == Init /\ [][NextThreaded]_vars

(* ------------------------------ properties ----------------------------- *)

Last(s) == s[Len(s)]

\* Inbound events 1..k that were joins handled without error.
JoinsUpTo(k) == {i \in 1..k : received[i].event = "join" /\ received[i].ok}

\* The registry that the joins 1..k describe, read off the log alone: one
\* entry per identifier seen, holding the values of its latest join.
SeenRegistry(k) ==
    [s \in {received[i].data.session_id : i \in JoinsUpTo(k)} |->
        LET idx == {i \in JoinsUpTo(k) : received[i].data.session_id = s}
            last == CHOOSE i \in idx : \A j \in idx : j <= i
        IN  [station |-> received[last].data.station,
             name |-> received[last].data.name]]

\* Position in `emitted` of the broadcast of the k-th inbound event: every
\* event handled without error emits once.
EmitIndex(k) == Cardinality({i \in 1..k : received[i].ok})

\* The step handled one more inbound event, of kind `e`.
Handled(e) ==
    /\ Len(received') = Len(received) + 1
    /\ Last(received').event = e

OpenClients == {x \in Clients : conn[x] = "open"}

\* Client x was sent exactly one more message in this step: event e, payload p.
Delivered(x, e, p) ==
    /\ Len(inbox'[x]) = Len(inbox[x]) + 1
    /\ SubSeq(inbox'[x], 1, Len(inbox[x])) = inbox[x]
    /\ Last(inbox'[x]).event = e
    /\ Last(inbox'[x]).payload = p

\* Connection c sent a join among the inbound events 1..k.
HasJoined(c, k) == \E i \in 1..k : received[i].event = "join" /\ received[i].from = c

TypeOK ==
    /\ DOMAIN users \subseteq SessionIds
    /\ Len(received) <= MaxEvents

C2_OverwriteOrAddOne ==
    [][ (Handled("join") /\ Last(received').ok) =>
            LET d == Last(received').data IN
            /\ d.session_id \in DOMAIN users'
            /\ users'[d.session_id] = [station |-> d.station, name |-> d.name]
            /\ Cardinality(DOMAIN users') =
                   Cardinality(DOMAIN users)
                     + (IF d.session_id \in DOMAIN users THEN 0 ELSE 1) ]_vars

\* An entry was overwritten by a second join with the same identifier and
\* the registry still has one entry.
C2_Witness ==
    /\ Len(received) = 2
    /\ JoinsUpTo(2) = {1, 2}
    /\ received[1].data.session_id = received[2].data.session_id
    /\ received[1].data.name # received[2].data.name
    /\ Cardinality(DOMAIN users) = 1
    /\ users[received[2].data.session_id].name = received[2].data.name

\* C3: a power_update with payload p is delivered to every client connected
\* at that moment, the sender included, as a power_update with payload p.
C3_PowerEchoedToAll ==
    [][ Handled("power_update") =>
            LET ev == Last(received') IN
            /\ ev.from \in OpenClients
            /\ \A x \in OpenClients : Delivered(x, "power_update", ev.data) ]_vars

\* Two clients are connected and the last thing each was sent is the
\* sender's power_update payload.
C3_Witness ==
    /\ Len(received) >= 1
    /\ Last(received).event = "power_update"
    /\ OpenClients = Clients
    /\ \A x \in Clients :
           /\ Len(inbox[x]) >= 1
           /\ Last(inbox[x]).event = "power_update"
           /\ Last(inbox[x]).payload = Last(received).data

\* C4: a power_update of a connection that never sent a join, the empty
\* registry included, is accepted and broadcast like any other: one
\* power_update with the payload sent, to exactly the connected clients.
C4_PowerNeedsNoJoin ==
    [][ (Handled("power_update") /\ ~ HasJoined(Last(received').from, Len(received))) =>
            LET ev == Last(received') IN
            /\ ev.ok
            /\ emitted' = Append(emitted, [event |-> "power_update", payload |-> ev.data])
            /\ {x \in Clients : inbox'[x] # inbox[x]} = OpenClients
            /\ \A x \in OpenClients :
                   inbox'[x] = Append(inbox[x], [event |-> "power_update", payload |-> ev.data])
            /\ users' = users ]_vars

\* The first event ever handled was a power_update, with the registry
\* empty, and its sender was sent the payload back.
C4_Witness ==
    /\ Len(received) >= 1
    /\ received[1].event = "power_update"
    /\ users = EmptyRegistry
    /\ Len(emitted) >= 1
    /\ emitted[1].payload = received[1].data
    /\ Len(inbox[received[1].from]) >= 1
    /\ inbox[received[1].from][1].payload = received[1].data

C6_KeyedByConnection ==
    [][ (Handled("join") /\ Last(received').ok) =>
            LET ev == Last(received') IN
            /\ ev.data.session_id = ev.from
            /\ \A o \in OpenClients \ {ev.from} :
                   (o \notin DOMAIN users' \/ (o \in DOMAIN users /\ users'[o] = users[o])) ]_vars

\* C7 (as claimed): the update_users payload emitted for a join is the
\* registry as that join's own write left it, whatever other events are
\* handled meanwhile.
C7_WriteAndEmitAtomic ==
    [][ \A c \in Clients :
            (pending[c].pc = "emit" /\ pending'[c].pc = "idle") =>
                /\ Len(emitted') = Len(emitted) + 1
                /\ Last(emitted').payload = pending[c].snap ]_vars

\* C8: two joins with distinct identifiers and the same station and name
\* give two entries, one per identifier: the snapshot of the second join
\* holds both, with equal values unless the first was overwritten meanwhile.
C8_SameStationTwoEntries ==
    \A i, j \in JoinsUpTo(Len(received)) :
        (/\ i < j
         /\ received[i].data.session_id # received[j].data.session_id
         /\ received[i].data.station = received[j].data.station
         /\ received[i].data.name = received[j].data.name) =>
            LET p == emitted[EmitIndex(j)].payload IN
            /\ {received[i].data.session_id, received[j].data.session_id} \subseteq DOMAIN p
            /\ p[received[j].data.session_id] =
                   [station |-> received[j].data.station, name |-> received[j].data.name]
            /\ (\A k \in JoinsUpTo(j) :
                    (i < k) => received[k].data.session_id # received[i].data.session_id)
                 => p[received[i].data.session_id] = p[received[j].data.session_id]
            /\ {received[i].data.session_id, received[j].data.session_id} \subseteq DOMAIN users

\* Two identifiers are registered with the same station and name.
C8_Witness ==
    /\ Len(received) = 2
    /\ JoinsUpTo(2) = {1, 2}
    /\ received[1].data.session_id # received[2].data.session_id
    /\ Cardinality(DOMAIN users) = 2
    /\ \A k \in DOMAIN users : users[k] = [station |-> "helm", name |-> "Han"]

C10_WellFormedJoinSucceeds ==
    [][ (Handled("join") /\ JoinKeys \subseteq DOMAIN Last(received').data) =>
            LET d == Last(received').data IN
            /\ Last(received').ok
            /\ d.session_id \in DOMAIN users'
            /\ users'[d.session_id] = [station |-> d.station, name |-> d.name]
            /\ emitted' = Append(emitted, [event |-> "update_users", payload |-> users']) ]_vars

\* A join with empty identifier, station and name was registered and
\* broadcast.
C10_Witness ==
    /\ Len(received) >= 1
    /\ Last(received).event = "join"
    /\ Last(received).ok
    /\ Last(received).data = [session_id |-> "", station |-> "", name |-> ""]
    /\ "" \in DOMAIN users
    /\ users[""] = [station |-> "", name |-> ""]
    /\ Last(emitted) = [event |-> "update_users", payload |-> users]

\* C11: a join whose payload lacks session_id, station or name ends in an
\* error with the registry exactly as before (no partial entry, no entry
\* changed) and with no update_users emitted or delivered.
C11_MalformedJoinChangesNothing ==
    [][ (Handled("join") /\ ~ (JoinKeys \subseteq DOMAIN Last(received').data)) =>
            /\ ~ Last(received').ok
            /\ users' = users
            /\ emitted' = emitted
            /\ inbox' = inbox ]_vars

\* After a join registered "c1", a join lacking a key but carrying the
\* identifier "c1" ended in an error; the entry and the broadcasts are as
\* the first join left them.
C11_Witness ==
    /\ Len(received) = 2
    /\ received[1].event = "join"
    /\ received[1].ok
    /\ received[1].data.session_id = "c1"
    /\ received[2].event = "join"
    /\ ~ received[2].ok
    /\ "session_id" \in DOMAIN received[2].data
    /\ received[2].data.session_id = "c1"
    /\ users = SeenRegistry(1)
    /\ Len(emitted) = 1

\* C12: a power_update leaves the registry unchanged whatever its payload,
\* and a join changes at most the entry keyed by its own identifier.
C12_FrameOfHandlers ==
    [][ /\ Handled("power_update") => users' = users
        /\ (Handled("join") /\ Last(received').ok) =>
               LET sid == Last(received').data.session_id IN
               /\ DOMAIN users' \subseteq (DOMAIN users) \cup {sid}
               /\ \A k \in (DOMAIN users) \ {sid} :
                      k \in DOMAIN users' /\ users'[k] = users[k]
        /\ (Handled("join") /\ ~ Last(received').ok) => users' = users ]_vars

\* A power_update whose payload carries session_id, station and name was
\* handled after a join, and the registry holds the join's entry only.
C12_Witness ==
    /\ Len(received) = 2
    /\ received[1].event = "join"
    /\ received[1].ok
    /\ received[2].event = "power_update"
    /\ JoinKeys \subseteq DOMAIN received[2].data
    /\ received[2].data.session_id # received[1].data.session_id
    /\ users = SeenRegistry(1)
    /\ Last(emitted).payload = received[2].data

\* C13: an inbound event handled without error emits exactly one broadcast,
\* of its own kind (join: update_users, power_update: power_update), and a
\* step that handles no inbound event (connect, disconnect) emits nothing.
C13_OneBroadcastPerEvent ==
    [][ /\ (Handled("join") /\ Last(received').ok) =>
               /\ Len(emitted') = Len(emitted) + 1
               /\ SubSeq(emitted', 1, Len(emitted)) = emitted
               /\ Last(emitted').event = "update_users"
        /\ (Handled("power_update") /\ Last(received').ok) =>
               /\ Len(emitted') = Len(emitted) + 1
               /\ SubSeq(emitted', 1, Len(emitted)) = emitted
               /\ Last(emitted').event = "power_update"
        /\ \A x \in Clients :
               \/ inbox'[x] = inbox[x]
               \/ /\ Len(emitted') = Len(emitted) + 1
                  /\ inbox'[x] = Append(inbox[x], Last(emitted'))
        /\ (received' = received) => (emitted' = emitted /\ inbox' = inbox) ]_vars

\* A join and a power_update were handled, with a connect in between: two
\* broadcasts, one of each kind, and the late client was sent only the
\* second.
C13_Witness ==
    /\ Len(received) = 2
    /\ received[1].event = "join"
    /\ received[1].ok
    /\ received[2].event = "power_update"
    /\ Len(emitted) = 2
    /\ emitted[1].event = "update_users"
    /\ emitted[2].event = "power_update"
    /\ \E x \in Clients :
           /\ inbox[x] = << emitted[2] >>
           /\ inbox[received[1].from] = emitted
====
